---- MODULE Spec2Model ----
(***************************************************************************)
(* Model of the multilevel feedback queue scheduler of                     *)
(* NachOS-4.0_MP3/code/threads/scheduler.cc.                               *)
(*                                                                         *)
(* The scheduler keeps three ready queues: L1 (a SortedList ordered by     *)
(* cmpPredict), L2 (a SortedList ordered by cmpPriority) and L3 (a plain   *)
(* List).  ReadyToRun files a thread by its priority, FindNextToRun ages   *)
(* the three queues and removes the front of the first non-empty one, Run  *)
(* hands the processor over.                                               *)
(*                                                                         *)
(* The list library (lib/list.h: List, SortedList, ListIterator), the      *)
(* thread class, the clock and the callers of the scheduler (Thread::Yield,*)
(* Thread::Sleep, Thread::Fork) are not part of the source at hand.  They  *)
(* are modelled from the written specification:                            *)
(*   - SortedList::Insert is a stable insert that puts the new item in     *)
(*     front of the first resident the comparison function ranks it ahead  *)
(*     of (this is what makes L2, with cmpPriority, "descending priority,  *)
(*     ties by insertion order");                                          *)
(*   - ListIterator visits every thread that was resident when the         *)
(*     traversal started exactly once, in list order;                      *)
(*   - the clock only moves forward and the running thread's lastTime      *)
(*     grows with it.                                                      *)
(***************************************************************************)
EXTENDS Integers, Sequences, FiniteSets, TLC

\* ------------------------------------------------------------------------
\* Bounds of the model
\* ------------------------------------------------------------------------
MaxTick == 3100
MaxDispatch == 2

NULL == 0

\* The clock advances in steps that make a residence of exactly 1500 ticks
\* (not yet due), of 1600 ticks (due once) and of more than 3000 ticks
\* (due twice) all happen.
TickSteps == {1500, 1600}

\* The thread populations the kernel is started with: for each thread its
\* priority and its burst prediction at creation.  Thread 1 is the thread
\* that runs first; a population of fewer than four threads leaves the
\* remaining thread identifiers unused.
Thr(p, b) == [priority |-> p, predict |-> b]

Workloads ==
  { <<Thr(110, 100), Thr(120, 100), Thr(70, 120), Thr(20, 100)>>,
    <<Thr(110, 100), Thr(120, 60), Thr(140, 120)>>,
    <<Thr(80, 100), Thr(90, 100), Thr(90, 100)>>,
    <<Thr(70, 100), Thr(70, 100), Thr(70, 100)>>,
    <<Thr(20, 100), Thr(20, 100), Thr(40, 100)>> }

\* The population used where the interrupt level is left to the callers.
IntWorkloads == { <<Thr(110, 100), Thr(120, 60), Thr(20, 100)>> }

Threads == 1..4

\* The threads that own a user address space (Thread::space # NULL).
UserThreads == {1, 3}

VARIABLES
  status,         \* Thread::status
  priority,       \* Thread::priority
  predict,        \* Thread::predict      (predictedBurst)
  lastTime,       \* Thread::lastTime     (lastRunTicks)
  agingCount,     \* Thread::agingCount   (agingMark)
  L1, L2, L3,     \* the three ready queues, front first
  totalTicks,     \* kernel->stats->totalTicks
  currentThread,  \* kernel->currentThread
  roundRobin,     \* the flag written by kernel->alarm->setRoundRobin
  toBeDestroyed,  \* Scheduler::toBeDestroyed
  next,           \* the caller's nextThread: result of FindNextToRun awaiting Run
  pc,             \* "run": a thread executes; "switched": SWITCH has just been done
  yieldRequested, \* history: the last step was a ReadyToRun that called YieldOnReturn
  selectedFrom,   \* history: queue the most recently selected thread was taken from
  L2order,        \* history: residents of L2 in the order of their last insertion
  dispatches,     \* history: number of threads FindNextToRun has handed out
  intLevel,       \* kernel->interrupt->getLevel()
  halted,         \* an ASSERT has failed: the kernel has stopped
  inRun,          \* threads suspended in SWITCH inside Run (scheduler.cc:210)
  calls,          \* history: collaborator calls made by the last Run step, in order
  foundNone,      \* history: the last step was a FindNextToRun that returned NULL
  finished,       \* history: the threads that called Run with finishing = TRUE, in order
  agingPc,        \* FindNextToRun taken statement by statement: the statement reached
  pending,        \* the residents the iterator of the current aging pass has yet to visit
  entry           \* history: the scheduler state on entry to that FindNextToRun

vars == <<status, priority, predict, lastTime, agingCount, L1, L2, L3,
          totalTicks, currentThread, roundRobin, toBeDestroyed, next, pc,
          yieldRequested, selectedFrom, L2order, dispatches, intLevel,
          halted, inRun, calls, foundNone, finished, agingPc, pending, entry>>

agingVars == <<agingPc, pending, entry>>

\* ------------------------------------------------------------------------
\* The scheduler's view of the machine as one value, so that the handlers
\* can be written as functions from state to state.
\* ------------------------------------------------------------------------
Sched ==
  [L1 |-> L1, L2 |-> L2, L3 |-> L3, priority |-> priority,
   predict |-> predict, lastTime |-> lastTime, agingCount |-> agingCount,
   L2order |-> L2order]

\* ------------------------------------------------------------------------
\* Comparison functions (scheduler.cc:32-38)
\* ------------------------------------------------------------------------
\* cmpPriority with the comparison turned round
cmpPriorityAscending(s, a, b) == s.priority[a] < s.priority[b]

cmpPriority(s, a, b) == s.priority[a] > s.priority[b]

cmpPredict(s, a, b) ==
  s.predict[a] \div 2 + s.lastTime[a] \div 2 > s.predict[b] \div 2 + s.lastTime[b] \div 2

\* ------------------------------------------------------------------------
\* List library
\* ------------------------------------------------------------------------
ListRemove(list, item) == SelectSeq(list, LAMBDA x : x # item)

ListAppend(list, item) == Append(list, item)

\* SortedList::Insert, given the set aheadOf of residents the comparison
\* function ranks item ahead of: item goes in front of the first of them,
\* or to the end when there is none
InsertPos(list, aheadOf) ==
  LET hits == {i \in 1..Len(list) : list[i] \in aheadOf}
  IN  IF hits = {} THEN Len(list) + 1
      ELSE CHOOSE i \in hits : \A j \in hits : i <= j

SortedInsert(list, item, aheadOf) ==
  LET p == InsertPos(list, aheadOf)
  IN  SubSeq(list, 1, p - 1) \o <<item>> \o SubSeq(list, p, Len(list))

QueueOf(s, q) ==
  CASE q = "L1" -> s.L1
    [] q = "L2" -> s.L2
    [] q = "L3" -> s.L3

\* L1->Insert, L2->Insert, L3->Append
Enqueue(s, q, t) ==
  CASE q = "L1" ->
         [s EXCEPT !.L1 = SortedInsert(s.L1, t, {x \in Threads : cmpPredict(s, t, x)})]
    [] q = "L2" ->
         [s EXCEPT !.L2 = SortedInsert(s.L2, t, {x \in Threads : cmpPriority(s, t, x)}),
                   !.L2order = Append(ListRemove(s.L2order, t), t)]
    [] q = "L3" ->
         [s EXCEPT !.L3 = ListAppend(s.L3, t)]
    [] OTHER -> s

DequeueNothing(s, q, t) == s

\* list->Remove(now)
Dequeue(s, q, t) ==
  CASE q = "L1" -> [s EXCEPT !.L1 = ListRemove(s.L1, t)]
    [] q = "L2" -> [s EXCEPT !.L2 = ListRemove(s.L2, t),
                             !.L2order = ListRemove(s.L2order, t)]
    [] q = "L3" -> [s EXCEPT !.L3 = ListRemove(s.L3, t)]

\* The processor idles: the current thread has gone to sleep and found
\* nothing to run.  Only then do interrupt handlers run on its behalf.
Idle ==
  /\ status[currentThread] = "BLOCKED"
  /\ L1 = <<>> /\ L2 = <<>> /\ L3 = <<>>

\* ------------------------------------------------------------------------
\* Scheduler::ReadyToRun (scheduler.cc:68-89)
\* ------------------------------------------------------------------------
\* the queue a readied thread of priority p is filed in (lines 77-83)
ReadyQueue(p) ==
  IF p < 50 THEN "L3"
  ELSE IF p < 100 THEN "L2"
  ELSE IF p < 150 THEN "L1"
  ELSE "none"

\* the condition under which YieldOnReturn is called (line 86), evaluated
\* once the thread has been filed in L1
YieldCondition(s, thread, cur) ==
  s.priority[cur] > 100 /\ cmpPredict(s, thread, cur)

\* the yield test made outside the L1 branch
ReadyToRunYieldsAnyQueue(s, thread, cur) == YieldCondition(s, thread, cur)

ReadyToRunYields(s, thread, cur) ==
  ReadyQueue(s.priority[thread]) = "L1" /\ YieldCondition(s, thread, cur)

InterruptsAny(level) == TRUE

\* ASSERT(kernel->interrupt->getLevel() == IntOff) (lines 71, 131, 183, 215)
InterruptsOff(level) == level = "IntOff"

\* A failed ASSERT stops the kernel where it stands.
Halt ==
  /\ halted' = TRUE
  /\ yieldRequested' = FALSE
  /\ calls' = <<>>
  /\ foundNone' = FALSE
  /\ UNCHANGED <<status, priority, predict, lastTime, agingCount, L1, L2, L3,
                 totalTicks, currentThread, roundRobin, toBeDestroyed, next,
                 pc, selectedFrom, L2order, dispatches, intLevel, inRun,
                 finished>>

ReadyToRun(thread) ==
  /\ ~halted
  /\ UNCHANGED agingVars
  /\ pc = "run"
  /\ \/ /\ thread # currentThread
        /\ next = NULL
        /\ status[thread] \in {"JUST_CREATED", "BLOCKED"}
        /\ \A i \in DOMAIN finished : finished[i] # thread
        /\ status[currentThread] = "RUNNING" \/ Idle
     \/ /\ thread = currentThread
        /\ next # NULL
        /\ status[thread] = "RUNNING"
  /\ IF ~InterruptsOff(intLevel)
     THEN Halt
     ELSE
       /\ LET s0 == [Sched EXCEPT !.agingCount[thread] = totalTicks]
              s1 == Enqueue(s0, ReadyQueue(s0.priority[thread]), thread)
          IN  /\ status' = [status EXCEPT ![thread] = "READY"]
              /\ agingCount' = s1.agingCount
              /\ L1' = s1.L1
              /\ L2' = s1.L2
              /\ L3' = s1.L3
              /\ L2order' = s1.L2order
              /\ yieldRequested' = ReadyToRunYields(s1, thread, currentThread)
       /\ calls' = <<>>
       /\ foundNone' = FALSE
       /\ UNCHANGED <<priority, predict, lastTime, totalTicks, currentThread,
                      roundRobin, toBeDestroyed, next, pc, selectedFrom,
                      dispatches, intLevel, halted, inRun, finished>>

\* ------------------------------------------------------------------------
\* Scheduler::aging (scheduler.cc:99-126)
\* ------------------------------------------------------------------------
\* the threshold test with >= in place of >
AgingDueAtThreshold(tick, mark) == tick - mark >= 1500

AgingDue(tick, mark) == tick - mark > 1500

AgedMark(mark) == mark + 1500

AgedPriorityUnclamped(p) == p + 10

AgedPriority(p) == IF p + 10 > 149 THEN 149 ELSE p + 10

\* the band tests of aging off by one
AgingQueueOffByOne(p) ==
  IF p > 100 THEN "L1"
  ELSE IF p > 50 THEN "L2"
  ELSE "L3"

\* the queue an aged thread of (new) priority p is put back in (lines 109-123)
AgingQueue(p) ==
  IF p > 99 THEN "L1"
  ELSE IF p > 49 THEN "L2"
  ELSE "L3"

\* one iteration of the loop body, for the resident now of queue list
agingItem(s, list, now, tick) ==
  IF AgingDue(tick, s.agingCount[now])
  THEN LET s1 == [s EXCEPT !.agingCount[now] = AgedMark(@),
                           !.priority[now] = AgedPriority(@)]
           s2 == Dequeue(s1, list, now)
       IN  Enqueue(s2, AgingQueue(s1.priority[now]), now)
  ELSE s

\* the traversal: every thread resident at the start, once, in list order
RECURSIVE agingFrom(_, _, _, _, _)
agingFrom(s, list, items, i, tick) ==
  IF i > Len(items) THEN s
  ELSE agingFrom(agingItem(s, list, items[i], tick), list, items, i + 1, tick)

aging(s, list, tick) == agingFrom(s, list, QueueOf(s, list), 1, tick)

\* ------------------------------------------------------------------------
\* Scheduler::FindNextToRun (scheduler.cc:128-159)
\* ------------------------------------------------------------------------
\* the three passes made in the order L3, L2, L1
AgeAllL3First(s, tick) == aging(aging(aging(s, "L3", tick), "L2", tick), "L1", tick)

\* lines 133-135
AgeAll(s, tick) == aging(aging(aging(s, "L1", tick), "L2", tick), "L3", tick)

\* the selection looking at L2 before L1
SelectQueueL2First(s) ==
  IF s.L2 # <<>> THEN "L2"
  ELSE IF s.L1 # <<>> THEN "L1"
  ELSE IF s.L3 # <<>> THEN "L3"
  ELSE "none"

\* lines 139-158: the queue the thread is taken from
SelectQueue(s) ==
  IF s.L1 # <<>> THEN "L1"
  ELSE IF s.L2 # <<>> THEN "L2"
  ELSE IF s.L3 # <<>> THEN "L3"
  ELSE "none"

\* round-robin left enabled for L2 as well
QuantumFlagL2(q) == q # "L1"

\* the value handed to setRoundRobin when a thread is taken from queue q
QuantumFlag(q) == q = "L3"

UpdatedPredictAfterReset(q, p, l) == IF q = "L1" THEN p \div 2 + 0 \div 2 ELSE p

\* lines 143 and 150/156: the burst prediction of a thread taken from queue q,
\* from its prediction p and its lastTime l as they were in the queue
UpdatedPredict(q, p, l) == IF q = "L1" THEN p \div 2 + l \div 2 ELSE p

SelectedButL3(s, q) == IF q \in {"none", "L3"} THEN NULL ELSE Head(QueueOf(s, q))

\* lines 139-158: the thread FindNextToRun returns, NULL when there is none
Selected(s, q) == IF q = "none" THEN NULL ELSE Head(QueueOf(s, q))

\* lines 139-158: the selection, from the scheduler state s1 the three aging
\* passes have produced
SelectFrom(s1) ==
  /\ LET q == SelectQueue(s1)
     IN  IF Selected(s1, q) = NULL
         THEN /\ next' = NULL
              /\ foundNone' = TRUE
              /\ priority' = s1.priority
              /\ agingCount' = s1.agingCount
              /\ L1' = s1.L1
              /\ L2' = s1.L2
              /\ L3' = s1.L3
              /\ L2order' = s1.L2order
              /\ UNCHANGED <<predict, lastTime, roundRobin, selectedFrom,
                             dispatches>>
         ELSE LET thread == Selected(s1, q)
                  s2 == Dequeue(s1, q, thread)
              IN  /\ next' = thread
                  /\ foundNone' = FALSE
                  /\ roundRobin' = QuantumFlag(q)
                  /\ selectedFrom' = q
                  /\ dispatches' = dispatches + 1
                  /\ predict' = [predict EXCEPT ![thread] =
                                   UpdatedPredict(q, predict[thread], lastTime[thread])]
                  /\ lastTime' = [lastTime EXCEPT ![thread] = 0]
                  /\ priority' = s2.priority
                  /\ agingCount' = s2.agingCount
                  /\ L1' = s2.L1
                  /\ L2' = s2.L2
                  /\ L3' = s2.L3
                  /\ L2order' = s2.L2order
  /\ yieldRequested' = FALSE
  /\ calls' = <<>>
  /\ UNCHANGED <<status, totalTicks, currentThread, toBeDestroyed, pc,
                 intLevel, halted, inRun, finished>>

FindNextToRun ==
  /\ ~halted
  /\ UNCHANGED agingVars
  /\ pc = "run"
  /\ next = NULL
  /\ dispatches < MaxDispatch
  /\ status[currentThread] \in {"RUNNING", "BLOCKED"}
  /\ IF ~InterruptsOff(intLevel)
     THEN Halt
     ELSE SelectFrom(AgeAll(Sched, totalTicks))

\* ------------------------------------------------------------------------
\* FindNextToRun statement by statement: the loop of each aging pass taken
\* one resident at a time (scheduler.cc:99-136), then the selection
\* ------------------------------------------------------------------------
\* the pass that follows the pass over a queue
PassAfter(list) ==
  CASE list = "entry" -> "L1"
    [] list = "L1" -> "L2"
    [] list = "L2" -> "L3"
    [] list = "L3" -> "select"

IterStay(items) == items

\* iter->Next(): the residents still to be visited
IterNext(items) == Tail(items)

\* lines 131-133 and 134, 135: the ASSERT has passed; a pass begins with an
\* iterator over the residents of its queue
AgingBegin ==
  /\ ~halted
  /\ agingPc \in {"entry", "L1", "L2", "L3"}
  /\ pending = <<>>
  /\ InterruptsOff(intLevel)
  /\ agingPc' = PassAfter(agingPc)
  /\ pending' = IF agingPc = "L3" THEN <<>> ELSE QueueOf(Sched, PassAfter(agingPc))
  /\ entry' = IF agingPc = "entry" THEN Sched ELSE entry
  /\ UNCHANGED <<status, priority, predict, lastTime, agingCount, L1, L2, L3,
                 totalTicks, currentThread, roundRobin, toBeDestroyed, next,
                 pc, yieldRequested, selectedFrom, L2order, dispatches,
                 intLevel, halted, inRun, calls, foundNone, finished>>

\* lines 101-125: one iteration of the loop
AgingVisit ==
  /\ ~halted
  /\ agingPc \in {"L1", "L2", "L3"}
  /\ pending # <<>>
  /\ LET s1 == agingItem(Sched, agingPc, Head(pending), totalTicks)
     IN  /\ priority' = s1.priority
         /\ agingCount' = s1.agingCount
         /\ L1' = s1.L1
         /\ L2' = s1.L2
         /\ L3' = s1.L3
         /\ L2order' = s1.L2order
  /\ pending' = IterNext(pending)
  /\ UNCHANGED <<status, predict, lastTime, totalTicks, currentThread,
                 roundRobin, toBeDestroyed, next, pc, yieldRequested,
                 selectedFrom, dispatches, intLevel, halted, inRun, calls,
                 foundNone, finished, agingPc, entry>>

\* lines 137-158: the selection and the return
AgingReturn ==
  /\ ~halted
  /\ agingPc = "select"
  /\ SelectFrom(Sched)
  /\ agingPc' = "returned"
  /\ UNCHANGED <<pending, entry>>

\* ------------------------------------------------------------------------
\* Scheduler::Run (scheduler.cc:178-227)
\* ------------------------------------------------------------------------
Call(name, t) == [call |-> name, thread |-> t]

HasSpace(t) == t \in UserThreads

AnyToBeDestroyed(tbd) == TRUE

\* ASSERT(toBeDestroyed == NULL) (line 186)
NoneToBeDestroyed(tbd) == tbd = NULL

\* lines 185-188: the thread to be destroyed once Run has been entered
MarkToBeDestroyed(finishing, oldThread, tbd) == IF finishing THEN oldThread ELSE tbd

SwitchFrom(oldThread, nextThread) == oldThread

\* line 198: kernel->currentThread = nextThread
SwitchTo(oldThread, nextThread) == nextThread

RunStatusDeleteAtOnce(st, oldThread, nextThread, finishing) ==
  [st EXCEPT ![nextThread] = "RUNNING",
             ![oldThread] = IF finishing THEN "DESTROYED" ELSE @]

\* lines 198-199, with the outgoing thread's status left as the caller set it
RunStatus(st, oldThread, nextThread, finishing) ==
  [st EXCEPT ![nextThread] = "RUNNING"]

RunCallsSaveLate(oldThread, nextThread) ==
  <<Call("CheckOverflow", oldThread),
    Call("SetCurrentThread", nextThread),
    Call("SWITCH", nextThread)>>
  \o (IF HasSpace(oldThread)
      THEN <<Call("SaveUserState", oldThread), Call("SaveState", oldThread)>>
      ELSE <<>>)

\* lines 190-210: what Run does to its collaborators before it is switched out
RunCalls(oldThread, nextThread) ==
  (IF HasSpace(oldThread)
   THEN <<Call("SaveUserState", oldThread), Call("SaveState", oldThread)>>
   ELSE <<>>)
  \o <<Call("CheckOverflow", oldThread),
       Call("SetCurrentThread", nextThread),
       Call("SWITCH", nextThread)>>

\* lines 240-243
CheckToBeDestroyed(st, tbd) ==
  IF tbd # NULL THEN [st EXCEPT ![tbd] = "DESTROYED"] ELSE st

\* lines 219-226: what Run does once the thread runs again
ResumeCalls(oldThread, tbd) ==
  (IF tbd # NULL THEN <<Call("delete", tbd)>> ELSE <<>>)
  \o (IF HasSpace(oldThread)
      THEN <<Call("RestoreUserState", oldThread), Call("RestoreState", oldThread)>>
      ELSE <<>>)

\* Run from its entry to SWITCH, executed by the outgoing thread
Run(finishing) ==
  /\ ~halted
  /\ UNCHANGED agingVars
  /\ pc = "run"
  /\ next # NULL
  /\ status[currentThread] \in {"READY", "BLOCKED"}
  /\ finishing => status[currentThread] = "BLOCKED"
  /\ IF ~InterruptsOff(intLevel) \/ (finishing /\ ~NoneToBeDestroyed(toBeDestroyed))
     THEN Halt
     ELSE
       /\ toBeDestroyed' = MarkToBeDestroyed(finishing, currentThread, toBeDestroyed)
       /\ finished' = IF finishing THEN Append(finished, currentThread) ELSE finished
       /\ calls' = RunCalls(currentThread, next)
       /\ currentThread' = SwitchTo(currentThread, next)
       /\ status' = RunStatus(status, currentThread, next, finishing)
       /\ inRun' = [inRun EXCEPT ![currentThread] = TRUE]
       /\ next' = NULL
       /\ pc' = "switched"
       /\ yieldRequested' = FALSE
       /\ foundNone' = FALSE
       /\ UNCHANGED <<priority, predict, lastTime, agingCount, L1, L2, L3,
                      totalTicks, roundRobin, selectedFrom, L2order,
                      dispatches, intLevel, halted>>

\* Run from the return of SWITCH to its end, executed by the incoming thread
\* when it had itself been switched out inside Run
Resume ==
  /\ ~halted
  /\ UNCHANGED agingVars
  /\ pc = "switched"
  /\ inRun[currentThread]
  /\ IF ~InterruptsOff(intLevel)
     THEN Halt
     ELSE
       /\ status' = CheckToBeDestroyed(status, toBeDestroyed)
       /\ toBeDestroyed' = NULL
       /\ calls' = ResumeCalls(currentThread, toBeDestroyed)
       /\ inRun' = [inRun EXCEPT ![currentThread] = FALSE]
       /\ pc' = "run"
       /\ yieldRequested' = FALSE
       /\ foundNone' = FALSE
       /\ UNCHANGED <<priority, predict, lastTime, agingCount, L1, L2, L3,
                      totalTicks, currentThread, roundRobin, next,
                      selectedFrom, L2order, dispatches, intLevel, halted,
                      finished>>

\* ------------------------------------------------------------------------
\* Environment: a thread that runs for the first time, the clock, a running
\* thread going to sleep, and the interrupt level
\* ------------------------------------------------------------------------
\* The incoming thread has never been inside Run: it starts at its entry
\* point, which may or may not call CheckToBeDestroyed.
ThreadBegin(reclaims) ==
  /\ ~halted
  /\ UNCHANGED agingVars
  /\ pc = "switched"
  /\ ~inRun[currentThread]
  /\ IF reclaims
     THEN /\ status' = CheckToBeDestroyed(status, toBeDestroyed)
          /\ toBeDestroyed' = NULL
          /\ calls' = IF toBeDestroyed # NULL
                      THEN <<Call("delete", toBeDestroyed)>> ELSE <<>>
     ELSE /\ calls' = <<>>
          /\ UNCHANGED <<status, toBeDestroyed>>
  /\ pc' = "run"
  /\ yieldRequested' = FALSE
  /\ foundNone' = FALSE
  /\ UNCHANGED <<priority, predict, lastTime, agingCount, L1, L2, L3,
                 totalTicks, currentThread, roundRobin, next, selectedFrom,
                 L2order, dispatches, intLevel, halted, inRun, finished>>

Tick(d) ==
  /\ ~halted
  /\ UNCHANGED agingVars
  /\ pc = "run"
  /\ next = NULL
  /\ status[currentThread] = "RUNNING" \/ Idle
  /\ totalTicks + d <= MaxTick
  /\ totalTicks' = totalTicks + d
  /\ lastTime' = IF status[currentThread] = "RUNNING"
                 THEN [lastTime EXCEPT ![currentThread] = @ + d]
                 ELSE lastTime
  /\ yieldRequested' = FALSE
  /\ calls' = <<>>
  /\ foundNone' = FALSE
  /\ UNCHANGED <<status, priority, predict, agingCount, L1, L2, L3,
                 currentThread, roundRobin, toBeDestroyed, next, pc,
                 selectedFrom, L2order, dispatches, intLevel, halted, inRun,
                 finished>>

Sleep ==
  /\ ~halted
  /\ UNCHANGED agingVars
  /\ pc = "run"
  /\ next = NULL
  /\ status[currentThread] = "RUNNING"
  /\ InterruptsOff(intLevel)
  /\ status' = [status EXCEPT ![currentThread] = "BLOCKED"]
  /\ yieldRequested' = FALSE
  /\ calls' = <<>>
  /\ foundNone' = FALSE
  /\ UNCHANGED <<priority, predict, lastTime, agingCount, L1, L2, L3,
                 totalTicks, currentThread, roundRobin, toBeDestroyed, next,
                 pc, selectedFrom, L2order, dispatches, intLevel, halted,
                 inRun, finished>>

\* a running thread enables or disables interrupts
SetLevel(level) ==
  /\ ~halted
  /\ UNCHANGED agingVars
  /\ pc = "run"
  /\ intLevel # level
  /\ intLevel' = level
  /\ yieldRequested' = FALSE
  /\ calls' = <<>>
  /\ foundNone' = FALSE
  /\ UNCHANGED <<status, priority, predict, lastTime, agingCount, L1, L2, L3,
                 totalTicks, currentThread, roundRobin, toBeDestroyed, next,
                 pc, selectedFrom, L2order, dispatches, halted, inRun,
                 finished>>

\* ------------------------------------------------------------------------
\* Specification
\* ------------------------------------------------------------------------
InitOf(workloads) ==
  /\ \E w \in workloads :
       /\ status = [t \in Threads |-> IF t = 1 THEN "RUNNING"
                                      ELSE IF t <= Len(w) THEN "JUST_CREATED"
                                      ELSE "DESTROYED"]
       /\ priority = [t \in Threads |-> IF t <= Len(w) THEN w[t].priority ELSE 0]
       /\ predict = [t \in Threads |-> IF t <= Len(w) THEN w[t].predict ELSE 0]
  /\ lastTime = [t \in Threads |-> 0]
  /\ agingCount = [t \in Threads |-> 0]
  /\ L1 = <<>>
  /\ L2 = <<>>
  /\ L3 = <<>>
  /\ totalTicks = 0
  /\ currentThread = 1
  /\ roundRobin = FALSE
  /\ toBeDestroyed = NULL
  /\ next = NULL
  /\ pc = "run"
  /\ yieldRequested = FALSE
  /\ selectedFrom = "none"
  /\ L2order = <<>>
  /\ dispatches = 0
  /\ intLevel = "IntOff"
  /\ halted = FALSE
  /\ inRun = [t \in Threads |-> FALSE]
  /\ calls = <<>>
  /\ foundNone = FALSE
  /\ finished = <<>>
  /\ agingPc = "atomic"
  /\ pending = <<>>
  /\ entry = Sched

Init == InitOf(Workloads)

Next ==
  \/ \E t \in Threads : ReadyToRun(t)
  \/ FindNextToRun
  \/ \E f \in BOOLEAN : Run(f)
  \/ Resume
  \/ \E r \in BOOLEAN : ThreadBegin(r)
  \/ \E d \in TickSteps : Tick(d)
  \/ Sleep

\* The scheduler with every caller keeping interrupts disabled.
Spec == Init /\ [][Next]_vars

\* The scheduler with callers that may enter it with interrupts enabled.
InitInt == InitOf(IntWorkloads)

NextInt ==
  \/ Next
  \/ \E l \in {"IntOn", "IntOff"} : SetLevel(l)

SpecInt == InitInt /\ [][NextInt]_vars

\* The ticks at which the statement-by-statement FindNextToRun is entered.
AgingTicks == {1600, 3100, 4700}

\* The aging marks ReadyToRun may have stamped before that.
AgingMarks == {0, 1500}

\* threads t..n filed by ReadyToRun in the order of their ids
RECURSIVE FiledFrom(_, _, _)
FiledFrom(s, t, n) ==
  IF t > n THEN s
  ELSE FiledFrom(Enqueue(s, ReadyQueue(s.priority[t]), t), t + 1, n)

\* FindNextToRun is entered by thread 1 with every other thread ready
InitAging ==
  /\ \E w \in Workloads, tick \in AgingTicks, marks \in [Threads -> AgingMarks] :
       LET n == Len(w)
           s == FiledFrom([L1 |-> <<>>, L2 |-> <<>>, L3 |-> <<>>,
                           priority |-> [t \in Threads |->
                                           IF t <= n THEN w[t].priority ELSE 0],
                           predict |-> [t \in Threads |->
                                          IF t <= n THEN w[t].predict ELSE 0],
                           lastTime |-> [t \in Threads |-> 0],
                           agingCount |-> [t \in Threads |->
                                             IF 1 < t /\ t <= n THEN marks[t] ELSE 0],
                           L2order |-> <<>>], 2, n)
       IN  /\ status = [t \in Threads |-> IF t = 1 THEN "RUNNING"
                                          ELSE IF t <= n THEN "READY"
                                          ELSE "DESTROYED"]
           /\ priority = s.priority
           /\ predict = s.predict
           /\ lastTime = s.lastTime
           /\ agingCount = s.agingCount
           /\ L1 = s.L1
           /\ L2 = s.L2
           /\ L3 = s.L3
           /\ L2order = s.L2order
           /\ totalTicks = tick
  /\ currentThread = 1
  /\ roundRobin = FALSE
  /\ toBeDestroyed = NULL
  /\ next = NULL
  /\ pc = "run"
  /\ yieldRequested = FALSE
  /\ selectedFrom = "none"
  /\ dispatches = 0
  /\ intLevel = "IntOff"
  /\ halted = FALSE
  /\ inRun = [t \in Threads |-> FALSE]
  /\ calls = <<>>
  /\ foundNone = FALSE
  /\ finished = <<>>
  /\ agingPc = "entry"
  /\ pending = <<>>
  /\ entry = Sched

NextAging ==
  \/ AgingBegin
  \/ AgingVisit
  \/ AgingReturn

\* One call of FindNextToRun, statement by statement.  The call runs with
\* interrupts disabled on a single processor: nothing can keep it from
\* taking its next statement.
SpecAging == InitAging /\ [][NextAging]_vars /\ WF_vars(NextAging)

\* ------------------------------------------------------------------------
\* Vocabulary of the properties
\* ------------------------------------------------------------------------
Range(seq) == {seq[i] : i \in 1..Len(seq)}

Queued == Range(L1) \cup Range(L2) \cup Range(L3)

Pos(seq, t) == CHOOSE i \in 1..Len(seq) : seq[i] = t

Before(seq, a, b) == Pos(seq, a) < Pos(seq, b)

\* score(t) = predictedBurst(t)/2 + lastRunTicks(t)/2
Score(t) == predict[t] \div 2 + lastTime[t] \div 2

\* FindNextToRun has just returned the thread next
JustSelected == next # NULL /\ status[currentThread] # "READY"

\* this step is a call of FindNextToRun that returns a thread
SelectStep == dispatches' = dispatches + 1

\* this step is the call ReadyToRun(t)
ReadyStep(t) == status[t] # "READY" /\ status'[t] = "READY"

\* C1: band routing.  In every state, hence after every ReadyToRun and after
\* the aging passes of every FindNextToRun, a queued thread of priority p is
\* in L1 iff p >= 100, in L2 iff 50 <= p < 100 and in L3 iff p < 50.
BandRouting ==
  \A t \in Queued :
    /\ priority[t] \in 0..149
    /\ t \in Range(L1) <=> priority[t] >= 100
    /\ t \in Range(L2) <=> (50 <= priority[t] /\ priority[t] < 100)
    /\ t \in Range(L3) <=> priority[t] < 50

\* a thread that aging has carried from L2 over the boundary is queued in L1
BandRoutingWitness ==
  \E t \in Range(L1) : priority[t] = 100 /\ agingCount[t] = 1500

\* C2: selection order.  A thread returned by FindNextToRun was not taken
\* from L2 or L3 while L1 (as aged by that call) is non-empty, nor from L3
\* while L2 is non-empty; and when exactly three threads, of priority 120,
\* 70 and 20, have been readied at tick 0, the first FindNextToRun returns
\* the one of priority 120.
SelectionOrder ==
  JustSelected =>
    /\ selectedFrom \in {"L2", "L3"} => L1 = <<>>
    /\ selectedFrom = "L3" => L2 = <<>>
    /\ ( /\ totalTicks = 0
         /\ dispatches = 1
         /\ Cardinality(Queued \cup {next}) = 3
         /\ {priority[t] : t \in Queued \cup {next}} = {120, 70, 20} )
       => priority[next] = 120

SelectionOrderWitness ==
  /\ JustSelected
  /\ totalTicks = 0
  /\ dispatches = 1
  /\ priority[next] = 120
  /\ selectedFrom = "L1"
  /\ \E t \in Range(L2) : priority[t] = 70
  /\ \E t \in Range(L3) : priority[t] = 20

\* C3: admission preemption trigger.  When ReadyToRun files a thread in L1
\* while the running thread has priority >= 100, a yield on return is
\* requested iff the running thread's score is strictly greater than the
\* readied thread's score.
AdmissionPreemption ==
  [][\A t \in Threads :
       (ReadyStep(t) /\ t \in Range(L1') /\ priority[currentThread] >= 100)
         => (yieldRequested' <=> Score(currentThread) > Score(t))]_vars

\* C4: ReadyToRun requests a yield on return only if the readied thread is
\* filed in L1 and the running thread's priority is in band L1.
YieldOnlyWithinL1 ==
  [][yieldRequested' =>
       \E t \in Threads :
         /\ ReadyStep(t)
         /\ t \in Range(L1')
         /\ priority[currentThread] >= 100]_vars

YieldOnlyWithinL1Witness ==
  /\ yieldRequested
  /\ priority[currentThread] >= 100
  /\ L1 # <<>>

\* C5: L1 ordering.  Whenever FindNextToRun returns a thread taken from L1,
\* no thread left in L1 has a strictly smaller score than the returned
\* thread had when it was taken.
L1ShortestFirst ==
  [][(SelectStep /\ selectedFrom' = "L1")
       => \A b \in Range(L1') : ~(Score(b) < Score(next'))]_vars

QueueHolding(l1, l2, l3, t) ==
  IF t \in Range(l1) THEN "L1"
  ELSE IF t \in Range(l2) THEN "L2"
  ELSE IF t \in Range(l3) THEN "L3"
  ELSE "none"

AgingRule ==
  [][SelectStep =>
       \A t \in Queued :
         IF totalTicks - agingCount[t] > 1500
         THEN /\ priority'[t] = (IF priority[t] + 10 < 149 THEN priority[t] + 10 ELSE 149)
              /\ agingCount'[t] = agingCount[t] + 1500
         ELSE /\ priority'[t] = priority[t]
              /\ agingCount'[t] = agingCount[t]
              /\ \/ t = next'
                 \/ QueueHolding(L1', L2', L3', t) = QueueHolding(L1, L2, L3, t)]_vars

\* at tick 1600 the priority-70 thread queued since tick 0 has become 80 in
\* L2 while the priority-70 thread readied at tick 1600 is unchanged
AgingRuleWitness ==
  /\ JustSelected
  /\ totalTicks = 1600
  /\ selectedFrom = "L2"
  /\ priority[next] = 80
  /\ agingCount[next] = 1500
  /\ \E u \in Range(L2) : priority[u] = 70 /\ agingCount[u] = 1600

\* C8: one promotion per pass.  In one call of FindNextToRun the priority of
\* a queued thread rises by at most 10 and its agingMark by at most 1500.
OnePromotionPerPass ==
  [][SelectStep =>
       \A t \in Queued :
         /\ priority'[t] <= priority[t] + 10
         /\ agingCount'[t] <= agingCount[t] + 1500]_vars

\* the first selecting call happens at tick 3100 and a thread queued since
\* tick 0 has been promoted once
OnePromotionPerPassWitness ==
  /\ JustSelected
  /\ dispatches = 1
  /\ totalTicks = 3100
  /\ \E t \in Queued \cup {next} : agingCount[t] = 1500 /\ priority[t] \in {30, 50}

\* C9: a thread that ages without leaving its band keeps its place; L3 is
\* FIFO: across a call of FindNextToRun the threads of L3 that are returned
\* or stay in L3 keep the order they were readied in, the returned thread
\* counting as first.
L3AfterSelect(from, thread, l3) == IF from = "L3" THEN <<thread>> \o l3 ELSE l3

L3StaysFifo ==
  [][SelectStep =>
       LET after == L3AfterSelect(selectedFrom', next', L3')
       IN  \A a, b \in Range(L3) \cap Range(after) :
             (a # b /\ Before(L3, a, b)) => Before(after, a, b)]_vars

\* C10: quantum flag.  The round-robin flag is true when the most recently
\* selected thread was taken from L3 and false when it was taken from L1
\* or L2.
QuantumFlagCorrect ==
  /\ selectedFrom = "L3" => roundRobin = TRUE
  /\ selectedFrom \in {"L1", "L2"} => roundRobin = FALSE

QuantumFlagWitness ==
  /\ JustSelected
  /\ selectedFrom = "L3"
  /\ dispatches = 2
  /\ roundRobin

\* steps of the dispatcher, told by what they change
RunStep == pc = "run" /\ pc' = "switched"
ResumeStep == pc = "switched" /\ inRun[currentThread] /\ pc' = "run"
FinishingStep == finished' # finished

\* ------------------------------------------------------------------------
\* C11: a thread that gives up the processor for good is not destroyed by
\* the Run it calls: its status becomes DESTROYED only in a step taken after
\* the context switch, by the incoming thread, which is another thread and
\* stays the current thread; the thread destroyed is the one held in
\* toBeDestroyed, and the slot is empty afterwards.  The current thread is
\* never a destroyed one, and when a thread resumes inside Run the thread
\* to be destroyed is destroyed in that very step.
\* ------------------------------------------------------------------------
DeferredDestruction ==
  [][ /\ \A t \in Threads :
           status[t] # "DESTROYED" /\ status'[t] = "DESTROYED"
             => /\ pc = "switched"
                /\ ~RunStep
                /\ t = toBeDestroyed
                /\ t # currentThread
                /\ currentThread' = currentThread
                /\ toBeDestroyed' = NULL
      /\ RunStep /\ FinishingStep
           => /\ toBeDestroyed' = currentThread
              /\ status'[currentThread] # "DESTROYED"
      /\ ResumeStep
           => /\ toBeDestroyed' = NULL
              /\ toBeDestroyed # NULL => status'[toBeDestroyed] = "DESTROYED"
      /\ status'[currentThread'] # "DESTROYED" ]_vars

\* a finished thread has been reclaimed by a thread that resumed inside Run
\* and then restored its own user state
DeferredDestructionWitness ==
  /\ pc = "run"
  /\ Len(calls) = 3
  /\ calls[1].call = "delete"
  /\ calls[2].call = "RestoreUserState"
  /\ calls[2].thread = currentThread
  /\ status[calls[1].thread] = "DESTROYED"
  /\ \E i \in DOMAIN finished : finished[i] = calls[1].thread

\* ------------------------------------------------------------------------
\* C12: the threads that have finished and are not yet destroyed are exactly
\* the thread in toBeDestroyed, if any (so there is at most one), and it is
\* the thread that called Run with finishing = TRUE last.  A finishing Run
\* entered while a thread is pending halts the kernel and leaves the slot as
\* it was: the slot is only ever filled when it is empty.  After a thread
\* has resumed inside Run the slot is empty.
\* ------------------------------------------------------------------------
PendingThreads ==
  {t \in Threads : status[t] # "DESTROYED"
                   /\ \E i \in DOMAIN finished : finished[i] = t}

OnePendingDestruction ==
  [][ /\ PendingThreads' = IF toBeDestroyed' = NULL THEN {} ELSE {toBeDestroyed'}
      /\ toBeDestroyed' # NULL => toBeDestroyed' = finished'[Len(finished')]
      /\ FinishingStep => toBeDestroyed = NULL /\ toBeDestroyed' = currentThread
      /\ toBeDestroyed' # toBeDestroyed /\ toBeDestroyed' # NULL => FinishingStep
      /\ halted' /\ ~halted => toBeDestroyed # NULL /\ toBeDestroyed' = toBeDestroyed
      /\ ResumeStep => toBeDestroyed' = NULL ]_vars

\* a second thread finished while the first was still pending: the kernel
\* halted with the first one still in the slot
OnePendingDestructionWitness ==
  /\ halted
  /\ toBeDestroyed # NULL
  /\ next # NULL
  /\ status[currentThread] = "BLOCKED"
  /\ toBeDestroyed = finished[Len(finished)]


\* number of times thread t appears in the three queues together
Occurrences(t) ==
  Cardinality({i \in DOMAIN L1 : L1[i] = t})
  + Cardinality({i \in DOMAIN L2 : L2[i] = t})
  + Cardinality({i \in DOMAIN L3 : L3[i] = t})

FindStep == foundNone' \/ SelectStep

\* ------------------------------------------------------------------------
\* C13 as stated: every thread with status READY is in exactly one of L1,
\* L2, L3, exactly once.
\* ------------------------------------------------------------------------
ReadyIsQueued ==
  \A t \in Threads : status[t] = "READY" => Occurrences(t) = 1

\* ------------------------------------------------------------------------
\* C13 amended: every READY thread other than the one FindNextToRun has
\* returned and Run has not yet dispatched is in exactly one queue exactly
\* once, the returned one is in none, and no other thread is queued.
\* ReadyToRun adds its thread once and leaves the other threads' membership
\* alone; a FindNextToRun (its aging passes included) keeps the set of
\* queued threads, less the one thread it returns when it returns one.
\* ------------------------------------------------------------------------
QueueMembership ==
  [][ /\ \A t \in Threads :
           Occurrences(t)' = IF status'[t] = "READY" /\ t # next' THEN 1 ELSE 0
      /\ \A t \in Threads :
           ReadyStep(t) => Queued' = Queued \cup {t} /\ t \notin Queued
      /\ FindStep /\ next' = NULL => Queued' = Queued
      /\ SelectStep => next' \in Queued /\ Queued' = Queued \ {next'} ]_vars

\* FindNextToRun has returned a thread and left two more in the queues, one
\* of the three carrying an aging mark of 1500 ticks or more
QueueMembershipWitness ==
  /\ next # NULL
  /\ status[next] = "READY"
  /\ Occurrences(next) = 0
  /\ Cardinality(Queued) >= 2
  /\ \E t \in Queued \cup {next} : priority[t] # 0 /\ agingCount[t] >= 1500


\* ------------------------------------------------------------------------
\* C14: a thread FindNextToRun takes from L1 gets the burst prediction
\* predict/2 + lastTime/2, computed from the lastTime it had in the queue,
\* and then lastTime 0; a thread taken from L2 or L3 keeps its prediction
\* and gets lastTime 0.  No other thread's prediction or lastTime changes
\* in that step, and a ReadyToRun, or a FindNextToRun that finds nothing
\* (its aging passes), changes no prediction and no lastTime at all.
\* ------------------------------------------------------------------------
BurstEstimateUpdate ==
  [][ /\ SelectStep =>
           /\ selectedFrom' = "L1" =>
                predict'[next'] = predict[next'] \div 2 + lastTime[next'] \div 2
           /\ selectedFrom' \in {"L2", "L3"} => predict'[next'] = predict[next']
           /\ lastTime'[next'] = 0
           /\ \A t \in Threads \ {next'} :
                predict'[t] = predict[t] /\ lastTime'[t] = lastTime[t]
      /\ (\E t \in Threads : ReadyStep(t)) \/ (FindStep /\ next' = NULL)
           => predict' = predict /\ lastTime' = lastTime ]_vars

\* thread 1 ran for 1500 ticks or more with a prediction of 100, was readied
\* into L1 and is taken from it with the new prediction 50 + 750 or 50 + 800
BurstEstimateUpdateWitness ==
  /\ JustSelected
  /\ next = 1
  /\ selectedFrom = "L1"
  /\ predict[1] \in {800, 850}
  /\ lastTime[1] = 0


Running == {t \in Threads : status[t] = "RUNNING"}

\* ------------------------------------------------------------------------
\* C15 as stated: the set of threads with status RUNNING is exactly
\* {currentThread} in every state.
\* ------------------------------------------------------------------------
ExactlyOneRunning == Running = {currentThread}

\* ------------------------------------------------------------------------
\* C15 amended: at most one thread is RUNNING and it is then the current
\* thread; when Run has made the switch the set of RUNNING threads is
\* exactly {currentThread}; ReadyToRun of another thread and FindNextToRun
\* leave the set as it is, and ReadyToRun of the current thread empties it
\* until the next Run.
\* ------------------------------------------------------------------------
RunningIsCurrent ==
  [][ /\ Running \subseteq {currentThread}
      /\ Running' \subseteq {currentThread'}
      /\ RunStep => Running' = {currentThread'} /\ currentThread' = next
      /\ \A t \in Threads :
           ReadyStep(t) => Running' = Running \ {t}
      /\ FindStep => Running' = Running /\ currentThread' = currentThread ]_vars

\* Run has switched from a thread that had made itself READY to the thread
\* FindNextToRun had returned
RunningIsCurrentWitness ==
  /\ pc = "switched"
  /\ Running = {currentThread}
  /\ \E t \in Threads \ {currentThread} : inRun[t] /\ status[t] = "READY"
  /\ calls[Len(calls)] = Call("SWITCH", currentThread)


\* ------------------------------------------------------------------------
\* C16: FindNextToRun returns NULL exactly when L1, L2 and L3 are all empty
\* on entry; it then returns normally (the kernel is not halted) and leaves
\* the queues, every field of every thread, the round-robin flag, the
\* current thread and toBeDestroyed as they were.  When a thread is queued
\* it returns one.
\* ------------------------------------------------------------------------
EmptyReadySet ==
  [][ FindStep =>
        /\ next' = NULL <=> Queued = {}
        /\ foundNone' <=> next' = NULL
        /\ ~halted'
        /\ next' = NULL =>
             /\ UNCHANGED <<L1, L2, L3, status, priority, predict, lastTime,
                            agingCount, roundRobin, toBeDestroyed,
                            currentThread, selectedFrom, dispatches>> ]_vars

\* the current thread has blocked after the clock advanced, and FindNextToRun
\* found nothing to run
EmptyReadySetWitness ==
  /\ foundNone
  /\ next = NULL
  /\ Queued = {}
  /\ ~halted
  /\ status[currentThread] = "BLOCKED"
  /\ totalTicks > 1500


HaltStep == halted' /\ ~halted

\* ------------------------------------------------------------------------
\* C17: while interrupts are enabled, every entry to ReadyToRun,
\* FindNextToRun or Run halts the kernel (the only other steps then are the
\* clock and a change of the interrupt level), and the halt leaves the
\* queues, every status, priority and aging mark, the round-robin flag, the
\* current thread and toBeDestroyed as they were.  When control comes back
\* from SWITCH inside Run interrupts are disabled.
\* ------------------------------------------------------------------------
InterruptsDisabledOnEntry ==
  [][ /\ intLevel = "IntOn" /\ totalTicks' = totalTicks /\ intLevel' = intLevel
           => HaltStep
      /\ intLevel = "IntOn" \/ HaltStep
           => UNCHANGED <<L1, L2, L3, status, priority, agingCount,
                          roundRobin, currentThread, toBeDestroyed, predict,
                          next, pc>>
      /\ pc = "switched" => intLevel = "IntOff" ]_vars

\* Run was entered with interrupts enabled, after FindNextToRun and
\* ReadyToRun had been called with interrupts disabled: the kernel halted
\* with the thread to run still undispatched
InterruptsDisabledOnEntryWitness ==
  /\ halted
  /\ intLevel = "IntOn"
  /\ next # NULL
  /\ status[currentThread] = "READY"
  /\ status[next] = "READY"
  /\ toBeDestroyed = NULL


\* the queue a queued thread is in: 1 for L1, 2 for L2, 3 for L3
Level(l1, l2, l3, t) ==
  IF t \in Range(l1) THEN 1 ELSE IF t \in Range(l2) THEN 2 ELSE 3

\* ------------------------------------------------------------------------
\* C18: in every step, a thread that is queued before the step and is still
\* queued, or is the thread FindNextToRun returns, after it keeps or raises
\* its priority, which stays at most 149, keeps or raises its aging mark,
\* which stays at most the current tick, and, if still queued, is in the
\* same queue or a higher one (never L1 to L2 or L3, never L2 to L3).  The
\* bounds hold from the moment ReadyToRun queues the thread.
\* ------------------------------------------------------------------------
AgingNeverBackward ==
  [][ /\ \A t \in Queued :
           t \in Queued' \/ (SelectStep /\ t = next')
             => /\ priority'[t] >= priority[t]
                /\ priority'[t] <= 149
                /\ agingCount'[t] >= agingCount[t]
                /\ agingCount'[t] <= totalTicks'
                /\ t \in Queued' => Level(L1', L2', L3', t) <= Level(L1, L2, L3, t)
      /\ \A t \in Queued' :
           priority'[t] <= 149 /\ agingCount'[t] <= totalTicks' ]_vars

\* a thread queued with priority 140 has waited more than 1500 ticks, has
\* been aged to the top priority 149 and is still queued in L1
AgingNeverBackwardWitness ==
  \E t \in Range(L1) :
    /\ priority[t] = 149
    /\ agingCount[t] >= 1500
    /\ totalTicks > agingCount[t]

\* positions in a call log of the calls with a given name
CallsNamed(log, name) == {i \in DOMAIN log : log[i].call = name}

Saves(log) == CallsNamed(log, "SaveUserState") \cup CallsNamed(log, "SaveState")

Restores(log) ==
  CallsNamed(log, "RestoreUserState") \cup CallsNamed(log, "RestoreState")

\* ------------------------------------------------------------------------
\* C19: the part of Run before SWITCH saves the user registers and the
\* address space of the outgoing thread once each if it owns an address
\* space, and not at all otherwise, before currentThread is set and before
\* SWITCH, and restores nothing.  The part after SWITCH, run by the thread
\* that had been switched out in that Run, restores that thread's registers
\* and address space once each if it owns an address space, and not at all
\* otherwise, after the delete of the thread to be destroyed, and saves
\* nothing.  No other step saves or restores.
\* ------------------------------------------------------------------------
DispatchOrdering ==
  [][ /\ RunStep =>
           /\ Cardinality(CallsNamed(calls', "SaveUserState"))
                = (IF HasSpace(currentThread) THEN 1 ELSE 0)
           /\ Cardinality(CallsNamed(calls', "SaveState"))
                = (IF HasSpace(currentThread) THEN 1 ELSE 0)
           /\ \A i \in Saves(calls') :
                /\ calls'[i].thread = currentThread
                /\ \A j \in CallsNamed(calls', "SetCurrentThread")
                              \cup CallsNamed(calls', "SWITCH") : i < j
           /\ Cardinality(CallsNamed(calls', "SetCurrentThread")) = 1
           /\ Cardinality(CallsNamed(calls', "SWITCH")) = 1
           /\ Restores(calls') = {}
      /\ ResumeStep =>
           /\ inRun[currentThread]
           /\ currentThread' = currentThread
           /\ Cardinality(CallsNamed(calls', "RestoreUserState"))
                = (IF HasSpace(currentThread) THEN 1 ELSE 0)
           /\ Cardinality(CallsNamed(calls', "RestoreState"))
                = (IF HasSpace(currentThread) THEN 1 ELSE 0)
           /\ \A i \in Restores(calls') :
                /\ calls'[i].thread = currentThread
                /\ \A j \in CallsNamed(calls', "delete") : j < i
           /\ toBeDestroyed # NULL
                => /\ CallsNamed(calls', "delete") # {}
                   /\ status'[toBeDestroyed] = "DESTROYED"
           /\ Saves(calls') = {}
           /\ CallsNamed(calls', "SWITCH") = {}
      /\ ~RunStep /\ ~ResumeStep
           => Saves(calls') = {} /\ Restores(calls') = {} ]_vars

\* thread 1, which owns an address space, was switched out at the first
\* dispatch and has resumed at the second, from a thread without an address
\* space: it has restored its registers and its address space
DispatchOrderingWitness ==
  /\ pc = "run"
  /\ currentThread = 1
  /\ dispatches = 2
  /\ calls = <<Call("RestoreUserState", 1), Call("RestoreState", 1)>>
  /\ \E t \in Threads \ UserThreads : inRun[t]


====
